---------------------------- MODULE Spec2Model ----------------------------
(***************************************************************************)
(* Model of the repository-mutation subsystem of windows-compatibility-    *)
(* fixer:                                                                  *)
(*   - FileBasedStore  (src/src/tools/data_store.py): the durable          *)
(*     prompt/answer cache, a CSV index plus one payload file per row;     *)
(*   - CodeFileManager (src/src/tools/code_file_manager.py): line-range    *)
(*     reads and replacements with indentation handling.                   *)
(* Each component has its own specification (SpecCache, SpecEdit); the     *)
(* variables of the other component stay at their idle values.             *)
(***************************************************************************)
EXTENDS Integers, Sequences, FiniteSets, TLC

VARIABLES
    index,      \* prompts.csv: the cells of column "prompt", in row order
    payloads,   \* <entry_id>.csv files: entry_id -> the cell of column "answer"
    origin,     \* ghost: query -> answer of the store call that created its entry
    owner,      \* ghost: entry_id -> query whose store call wrote that payload file
    op,         \* the last cache call: [name, query]
    ret,        \* what the last cache call returned or raised: [kind, val]
    fs_exists,  \* whether the edited source file exists
    file,       \* the content of the edited source file, a sequence of characters
    ed_before,  \* ghost: the content of the file when the last call started
    ed_pc,      \* "idle" before the CodeFileManager call, "returned" after it
    ed_op,      \* the CodeFileManager call: [name, range, text]
    ed_ret,     \* what the call returned or raised: [kind, val]
    nm_call,    \* the _normalize_line_range call: [range, line_count, padding]
    nm_ret,     \* what that call returned or raised: [kind, val]
    g_pc,       \* GitManager: "new", a position inside initialize, "done", "failed"
    g_url_ok,   \* whether repository_url matches https://<domain>/<owner>/<repo>
    g_tree,     \* whether _source_tree is set (not None)
    g_remote,   \* the branches of origin: a set of [name, tip, author]
    g_local,    \* the local branches of the clone: name -> tip commit
    g_head,     \* the checked-out branch of the clone
    g_upstream, \* the local branches that have an upstream tracking branch
    g_user,     \* user.name of the clone's configuration
    g_feature,  \* _feature_branch_name
    g_dirty,    \* whether the working tree has uncommitted changes
    g_commits,  \* how many commits this clone has recorded
    g_calls,    \* how many public calls besides initialize were made
    g_latest,   \* initialize: latest_commit
    g_todo,     \* initialize: the branches the cleanup loop has yet to examine
    g_call,     \* the last public call: [name, arg]
    g_ret,      \* what it returned or raised: [kind, val]
    g_ops,      \* the git and HTTP operations of the last public call, in order
    g_deleted,  \* ghost: the remote branches the cleanup has deleted
    l_cache,    \* LLModel: the class of the DataStore given as cache
    l_pc,       \* "idle", or "loop" inside get_completion_with_length_check
    l_call,     \* the last public call of LLModel
    l_ret,      \* what it returned or raised: [kind, val]
    l_messages, \* get_completion_with_length_check: messages
    l_i,        \* get_completion_with_length_check: iterations completed
    l_events,   \* the cache lookups and provider requests of the last call
    l_first,    \* ghost: (prompt, format) -> result of its first get_completion
    n_hist      \* ghost: the calls made on a NullDataStore, with their results

cacheVars == <<index, payloads, origin, owner, op, ret>>
editVars == <<fs_exists, file, ed_before, ed_pc, ed_op, ed_ret>>
\* what a cache call leaves alone, and what a CodeFileManager call leaves alone
normVars == <<nm_call, nm_ret>>
gitVars == <<g_pc, g_url_ok, g_tree, g_remote, g_local, g_head, g_upstream,
             g_user, g_feature, g_dirty, g_commits, g_calls, g_latest, g_todo,
             g_call, g_ret, g_ops, g_deleted>>
llmVars == <<l_cache, l_pc, l_call, l_ret, l_messages, l_i, l_events, l_first>>
nullVars == <<n_hist>>
nonCacheVars == <<editVars, normVars, gitVars, llmVars, nullVars>>
nonEditVars == <<cacheVars, normVars, gitVars, llmVars, nullVars>>
nonNormVars == <<cacheVars, editVars, gitVars, llmVars, nullVars>>
nonGitVars == <<cacheVars, editVars, normVars, llmVars, nullVars>>
nonLLMVars == <<cacheVars, editVars, normVars, gitVars, nullVars>>
nonNullVars == <<cacheVars, editVars, normVars, gitVars, llmVars>>
vars == <<index, payloads, origin, owner, op, ret,
          fs_exists, file, ed_before, ed_pc, ed_op, ed_ret,
          nm_call, nm_ret,
          g_pc, g_url_ok, g_tree, g_remote, g_local, g_head, g_upstream,
          g_user, g_feature, g_dirty, g_commits, g_calls, g_latest, g_todo,
          g_call, g_ret, g_ops, g_deleted,
          l_cache, l_pc, l_call, l_ret, l_messages, l_i, l_events, l_first,
          n_hist>>

---------------------------------------------------------------------------
(* Generic helpers *)

SetMin(S) == CHOOSE x \in S : \A y \in S : x <= y

RECURSIVE Flatten(_)
\* "".join(parts) / file.writelines(parts)
Flatten(parts) ==
    IF parts = <<>> THEN <<>> ELSE Head(parts) \o Flatten(Tail(parts))

---------------------------------------------------------------------------
(* FileBasedStore: serialization.  A text is a sequence of Unicode code    *)
(* points; a base64 string is a sequence of alphabet positions 0..63, with *)
(* 64 standing for the padding character "=".                              *)

\* text.encode("utf-8"), for code points below 0x10000
Utf8OfCodePoint(cp) ==
    IF cp < 128 THEN <<cp>>
    ELSE IF cp < 2048 THEN <<192 + (cp \div 64), 128 + (cp % 64)>>
    ELSE <<224 + (cp \div 4096), 128 + ((cp \div 64) % 64), 128 + (cp % 64)>>

RECURSIVE Utf8Encode(_)
Utf8Encode(text) ==
    IF text = <<>> THEN <<>>
    ELSE Utf8OfCodePoint(Head(text)) \o Utf8Encode(Tail(text))

RECURSIVE Utf8Decode(_)
\* decoded_bytes.decode("utf-8"), on well-formed input
Utf8Decode(bytes) ==
    IF bytes = <<>> THEN <<>>
    ELSE IF bytes[1] < 128
         THEN <<bytes[1]>> \o Utf8Decode(Tail(bytes))
    ELSE IF bytes[1] < 224
         THEN <<(bytes[1] - 192) * 64 + (bytes[2] - 128)>>
              \o Utf8Decode(SubSeq(bytes, 3, Len(bytes)))
    ELSE <<(bytes[1] - 224) * 4096 + (bytes[2] - 128) * 64 + (bytes[3] - 128)>>
         \o Utf8Decode(SubSeq(bytes, 4, Len(bytes)))

RECURSIVE B64Encode(_)
\* base64.b64encode
B64Encode(bytes) ==
    IF bytes = <<>> THEN <<>>
    ELSE IF Len(bytes) = 1
         THEN <<bytes[1] \div 4, (bytes[1] % 4) * 16, 64, 64>>
    ELSE IF Len(bytes) = 2
         THEN <<bytes[1] \div 4,
                (bytes[1] % 4) * 16 + (bytes[2] \div 16),
                (bytes[2] % 16) * 4,
                64>>
    ELSE <<bytes[1] \div 4,
           (bytes[1] % 4) * 16 + (bytes[2] \div 16),
           (bytes[2] % 16) * 4 + (bytes[3] \div 64),
           bytes[3] % 64>>
         \o B64Encode(SubSeq(bytes, 4, Len(bytes)))

RECURSIVE B64Decode(_)
\* base64.b64decode, on a padded base64 string
B64Decode(chars) ==
    IF Len(chars) < 4 THEN <<>>
    ELSE (IF chars[3] = 64
          THEN <<chars[1] * 4 + (chars[2] \div 16)>>
          ELSE IF chars[4] = 64
          THEN <<chars[1] * 4 + (chars[2] \div 16),
                 (chars[2] % 16) * 16 + (chars[3] \div 4)>>
          ELSE <<chars[1] * 4 + (chars[2] \div 16),
                 (chars[2] % 16) * 16 + (chars[3] \div 4),
                 (chars[3] % 4) * 64 + chars[4]>>)
         \o B64Decode(SubSeq(chars, 5, Len(chars)))

\* FileBasedStore._serialize_content (str input)
SerializeContent(text) == B64Encode(Utf8Encode(text))

\* FileBasedStore._deserialize_content
DeserializeContent(encoded_string) == Utf8Decode(B64Decode(encoded_string))

---------------------------------------------------------------------------
(* FileBasedStore: the CSV files.  DataFrame.to_csv writes a cell's text;  *)
(* pd.read_csv reads an empty cell back as the float NaN, not as "".       *)
(* (The other default NA markers and the numeric inference of read_csv     *)
(* need a cell that is no base64 encoding of the texts used here.)         *)

NaN == <<-1>>

\* pd.read_csv: the values of a column
ReadCsvColumn(cells) ==
    [i \in DOMAIN cells |-> IF cells[i] = <<>> THEN NaN ELSE cells[i]]

\* DataFrame.to_csv(index=False): NaN is written as the empty cell
WriteCsvColumn(values) ==
    [i \in DOMAIN values |-> IF values[i] = NaN THEN <<>> ELSE values[i]]

\* query in data_frame["prompt"].values
InColumn(key, values) == \E i \in DOMAIN values : values[i] = key

\* data_frame.index[data_frame["prompt"] == query].tolist()[0]  (zero-based)
EntryId(key, values) ==
    SetMin({i \in DOMAIN values : values[i] = key}) - 1

\* data_frame.drop(entry_id): the rows that remain, in order
DropRow(values, entry_id) ==
    SubSeq(values, 1, entry_id) \o SubSeq(values, entry_id + 2, Len(values))

\* os.path.exists(f"{storage_dir}/{entry_id}.csv")
PayloadExists(entry_id) == entry_id \in DOMAIN payloads

Result(kind, val) == [kind |-> kind, val |-> val]

\* FileBasedStore.contains
Contains(query) == InColumn(SerializeContent(query), ReadCsvColumn(index))

\* the entry_id whose payload file a call on a present query opens
PayloadIdOf(query) == EntryId(SerializeContent(query), ReadCsvColumn(index))

\* FileBasedStore.retrieve, as a function of the cache state
RetrieveResult(query) ==
    LET key == SerializeContent(query)
        data_frame == ReadCsvColumn(index)
    IN  IF InColumn(key, data_frame)
        THEN LET entry_id == EntryId(key, data_frame)
             IN  IF ~PayloadExists(entry_id)
                 THEN Result("FileNotFoundError", <<>>)
                 ELSE LET answer == ReadCsvColumn(<<payloads[entry_id]>>)[1]
                      IN  IF answer = NaN
                          THEN Result("AttributeError", <<>>)
                          ELSE Result("value", DeserializeContent(answer))
        ELSE Result("None", <<>>)

---------------------------------------------------------------------------
(* Inputs of the cache calls *)

\* "A", "e-acute newline", "BC"
Queries == {<<65>>, <<233, 10>>, <<66, 67>>}

\* "", "a", "newline Euro-sign"
Answers == {<<>>, <<97>>, <<10, 8364>>}

NoAnswer == <<-1>>
NoQuery == <<-1>>
NoOp == [name |-> "none", query |-> NoQuery]

---------------------------------------------------------------------------
(* FileBasedStore: the operations *)

\* FileBasedStore.__init__ on a fresh base directory: an index with no rows
CacheInit ==
    /\ index = <<>>
    /\ payloads = <<>>
    /\ origin = [q \in Queries |-> NoAnswer]
    /\ owner = <<>>
    /\ op = NoOp
    /\ ret = Result("none", <<>>)

\* FileBasedStore.store
Store(query, result) ==
    LET key == SerializeContent(query)
        val == SerializeContent(result)
        data_frame == ReadCsvColumn(index)
    IN  /\ op' = [name |-> "store", query |-> query]
        /\ IF InColumn(key, data_frame)
           THEN /\ ret' = IF PayloadExists(EntryId(key, data_frame))
                          THEN Result("False", <<>>)
                          ELSE Result("FileNotFoundError", <<>>)
                /\ UNCHANGED <<index, payloads, origin, owner>>
           ELSE LET new_frame == Append(data_frame, key)
                    new_id == Len(new_frame) - 1
                IN  /\ index' = WriteCsvColumn(new_frame)
                    /\ payloads' = [i \in DOMAIN payloads \cup {new_id} |->
                                      IF i = new_id THEN val ELSE payloads[i]]
                    /\ owner' = [i \in DOMAIN owner \cup {new_id} |->
                                      IF i = new_id THEN query ELSE owner[i]]
                    /\ origin' = [origin EXCEPT ![query] = result]
                    /\ ret' = Result("True", <<>>)

\* FileBasedStore.remove
Remove(query) ==
    LET key == SerializeContent(query)
        data_frame == ReadCsvColumn(index)
    IN  /\ op' = [name |-> "remove", query |-> query]
        /\ ret' = Result("None", <<>>)
        /\ IF InColumn(key, data_frame)
           THEN LET entry_id == EntryId(key, data_frame)
                IN  /\ index' = WriteCsvColumn(DropRow(data_frame, entry_id))
                    /\ payloads' = [i \in DOMAIN payloads \ {entry_id} |-> payloads[i]]
                    /\ owner' = [i \in DOMAIN owner \ {entry_id} |-> owner[i]]
                    /\ origin' = [origin EXCEPT ![query] = NoAnswer]
           ELSE UNCHANGED <<index, payloads, origin, owner>>

\* FileBasedStore.retrieve
Retrieve(query) ==
    /\ op' = [name |-> "retrieve", query |-> query]
    /\ ret' = RetrieveResult(query)
    /\ UNCHANGED <<index, payloads, origin, owner>>

\* FileBasedStore.contains
ContainsCall(query) ==
    /\ op' = [name |-> "contains", query |-> query]
    /\ ret' = IF Contains(query) THEN Result("True", <<>>) ELSE Result("False", <<>>)
    /\ UNCHANGED <<index, payloads, origin, owner>>

StoreAction == \E q \in Queries, a \in Answers : Store(q, a) /\ UNCHANGED nonCacheVars
RemoveAction == \E q \in Queries : Remove(q) /\ UNCHANGED nonCacheVars
RetrieveAction == \E q \in Queries : Retrieve(q) /\ UNCHANGED nonCacheVars
ContainsAction == \E q \in Queries : ContainsCall(q) /\ UNCHANGED nonCacheVars

CacheNext == StoreAction \/ RemoveAction \/ RetrieveAction \/ ContainsAction

---------------------------------------------------------------------------
(* CodeFileManager: text helpers.  A text is a sequence of one-character   *)
(* strings; a file is its content, read and written in full.               *)

Max(a, b) == IF a >= b THEN a ELSE b
Min(a, b) == IF a <= b THEN a ELSE b

\* characters that str.strip() removes
Whitespace == {" ", "\n", "\t", "\r"}

\* position of the first "\n" of text, 0 if there is none
FirstNewline(text) ==
    IF \E i \in DOMAIN text : text[i] = "\n"
    THEN SetMin({i \in DOMAIN text : text[i] = "\n"})
    ELSE 0

RECURSIVE ReadLines(_)
\* file.readlines(): the lines with their terminators
ReadLines(content) ==
    IF content = <<>> THEN <<>>
    ELSE LET nl == FirstNewline(content)
         IN  IF nl = 0 THEN <<content>>
             ELSE <<SubSeq(content, 1, nl)>>
                  \o ReadLines(SubSeq(content, nl + 1, Len(content)))

RECURSIVE SplitNewline(_)
\* str.split("\n"): the pieces between newlines, at least one
SplitNewline(text) ==
    LET nl == FirstNewline(text)
    IN  IF nl = 0 THEN <<text>>
        ELSE <<SubSeq(text, 1, nl - 1)>>
             \o SplitNewline(SubSeq(text, nl + 1, Len(text)))

RECURSIVE JoinNewline(_)
\* "\n".join(pieces)
JoinNewline(pieces) ==
    IF Len(pieces) = 0 THEN <<>>
    ELSE IF Len(pieces) = 1 THEN pieces[1]
    ELSE pieces[1] \o <<"\n">> \o JoinNewline(Tail(pieces))

\* a Python slice bound, resolved against a list of length n
SliceBound(i, n) == IF i < 0 THEN Max(0, n + i) ELSE Min(i, n)

\* seq[lo:hi] in Python (zero-based, negative bounds count from the end)
PySlice(seq, lo, hi) ==
    SubSeq(seq, SliceBound(lo, Len(seq)) + 1, SliceBound(hi, Len(seq)))

\* seq[lo:hi] = new_items in Python
PySliceAssign(seq, lo, hi, new_items) ==
    LET from == SliceBound(lo, Len(seq))
        to == Max(from, SliceBound(hi, Len(seq)))
    IN  SubSeq(seq, 1, from) \o new_items \o SubSeq(seq, to + 1, Len(seq))

\* " " * spaces
Spaces(spaces) == [i \in 1..spaces |-> " "]

\* len(line) - len(line.lstrip(" "))
LeadingSpaces(line) ==
    IF \E i \in DOMAIN line : line[i] # " "
    THEN SetMin({i \in DOMAIN line : line[i] # " "}) - 1
    ELSE Len(line)

\* not line.strip()
IsBlank(line) == \A i \in DOMAIN line : line[i] \in Whitespace

\* CodeFileManager._calculate_indent_level, for a (start_line, end_line) pair
CalculateIndentLevel(file_lines, start_line, end_line) ==
    LET lines == PySlice(file_lines, start_line - 1, end_line)
        indentations == {LeadingSpaces(lines[i]) :
                            i \in {j \in DOMAIN lines : ~IsBlank(lines[j])}}
    IN  IF indentations = {} THEN 0 ELSE SetMin(indentations)

\* CodeFileManager._apply_indent
ApplyIndent(code, spaces) ==
    LET pieces == SplitNewline(code)
    IN  JoinNewline([i \in DOMAIN pieces |-> Spaces(spaces) \o pieces[i]])

(* A line_range argument: an int r is [kind |-> "int", lo |-> r, hi |-> r], *)
(* a 2-tuple (a, b) is [kind |-> "tuple", lo |-> a, hi |-> b], anything     *)
(* else is of kind "other".                                                *)
IntRange(r) == [kind |-> "int", lo |-> r, hi |-> r]
TupleRange(a, b) == [kind |-> "tuple", lo |-> a, hi |-> b]
OtherRange == [kind |-> "other", lo |-> 0, hi |-> 0]

\* mutant of RangeShapeOk: the final else branch is forgotten
RangeShapeOkLenient(line_range) == line_range.kind \in {"int", "tuple", "other"}

\* _normalize_line_range raises ValueError unless this holds
RangeShapeOk(line_range) == line_range.kind \in {"int", "tuple"}

\* mutant of NormalizeLineRange: the padding is not added to the end line
NormalizeLineRangeUnpaddedEnd(line_range, line_count, padding) ==
    <<Max(1, line_range.lo - padding), Min(line_count, line_range.hi)>>

\* CodeFileManager._normalize_line_range, for a range of valid shape
NormalizeLineRange(line_range, line_count, padding) ==
    <<Max(1, line_range.lo - padding), Min(line_count, line_range.hi + padding)>>

\* mutant of BoundsOk: the test start_line <= end_line is forgotten
BoundsOkUnordered(start_line, end_line, line_count) ==
    /\ 1 <= start_line
    /\ end_line <= line_count

\* mutant of BoundsOk: a one-line range is rejected
BoundsOkStrict(start_line, end_line, line_count) ==
    /\ 1 <= start_line
    /\ start_line < end_line
    /\ end_line <= line_count

\* the bounds test of update_code_segment
BoundsOk(start_line, end_line, line_count) ==
    /\ 1 <= start_line
    /\ start_line <= end_line
    /\ end_line <= line_count

\* mutant of IndentedCode: code of equal indentation is indented as well
IndentedCodeEager(file_lines, start_line, end_line, updated_code) ==
    LET current_indent == CalculateIndentLevel(file_lines, start_line, end_line)
        updated_code_lines == SplitNewline(updated_code)
        updated_code_indent ==
            CalculateIndentLevel(updated_code_lines, 1, Len(updated_code_lines))
    IN  IF updated_code_indent <= current_indent
        THEN ApplyIndent(updated_code, current_indent)
        ELSE updated_code

\* update_code_segment: the code to substitute, after the indentation step
IndentedCode(file_lines, start_line, end_line, updated_code) ==
    LET current_indent == CalculateIndentLevel(file_lines, start_line, end_line)
        updated_code_lines == SplitNewline(updated_code)
        updated_code_indent ==
            CalculateIndentLevel(updated_code_lines, 1, Len(updated_code_lines))
    IN  IF updated_code_indent < current_indent
        THEN ApplyIndent(updated_code, current_indent)
        ELSE updated_code

\* mutant of SubstituteLines: the block is written without its newline
SubstituteLinesUnterminated(file_lines, line_range, start_line, end_line, code) ==
    IF line_range.kind = "int"
    THEN [file_lines EXCEPT ![start_line] = code]
    ELSE PySliceAssign(file_lines, start_line - 1, end_line, <<code>>)

\* update_code_segment: the line buffer after the substitution
SubstituteLines(file_lines, line_range, start_line, end_line, code) ==
    IF line_range.kind = "int"
    THEN [file_lines EXCEPT ![start_line] = code \o <<"\n">>]
    ELSE PySliceAssign(file_lines, start_line - 1, end_line, <<code \o <<"\n">>>>)

---------------------------------------------------------------------------
(* Inputs of the CodeFileManager calls *)

\* the most lines of the file before the call
MaxLines == 3

\* "x", " x", "  x" and a whitespace-only line
LineTexts == {<<"x">>, <<" ", "x">>, <<" ", " ", "x">>, <<" ">>}

\* line texts, each terminated by "\n" except possibly the last
FileOf(texts, final_newline) ==
    Flatten([i \in DOMAIN texts |->
                IF i = Len(texts) /\ ~final_newline
                THEN texts[i] ELSE texts[i] \o <<"\n">>])

InitialFiles ==
    {FileOf(texts, nl) :
        texts \in UNION {[1..n -> LineTexts] : n \in 0..MaxLines},
        nl \in BOOLEAN}

\* "", "x\n x", " x\n", "  x"
NewTexts ==
    {<<>>,
     <<"x", "\n", " ", "x">>,
     <<" ", "x", "\n">>,
     <<" ", " ", "x">>}

Bounds == (-2)..(MaxLines + 1)

Ranges ==
    {IntRange(r) : r \in Bounds}
    \cup {TupleRange(a, b) : a \in Bounds, b \in Bounds}
    \cup {OtherRange}

NoEdit == [name |-> "none", range |-> OtherRange, text |-> <<>>]

---------------------------------------------------------------------------
(* CodeFileManager: the operations *)

EditInit ==
    /\ fs_exists \in BOOLEAN
    /\ file \in (IF fs_exists THEN InitialFiles ELSE {<<>>})
    /\ ed_before = file
    /\ ed_pc = "idle"
    /\ ed_op = NoEdit
    /\ ed_ret = Result("none", <<>>)

\* mutant of UpdateCodeSegment: the FileNotFoundError is not handled
UpdateCodeSegmentUnhandled(line_range, updated_code) ==
    LET file_lines == ReadLines(file)
        line_count == Len(file_lines)
        norm == NormalizeLineRange(line_range, line_count, 0)
        start_line == norm[1]
        end_line == norm[2]
        code == IndentedCode(file_lines, start_line, end_line, updated_code)
    IN  /\ ed_pc = "idle"
        /\ ed_pc' = "returned"
        /\ ed_op' = [name |-> "update", range |-> line_range, text |-> updated_code]
        /\ ed_before' = file
        /\ UNCHANGED fs_exists
        /\ IF ~fs_exists
           THEN /\ ed_ret' = Result("FileNotFoundError", <<>>)
                /\ UNCHANGED file
           ELSE IF ~RangeShapeOk(line_range)
           THEN /\ ed_ret' = Result("ValueError: shape", <<>>)
                /\ UNCHANGED file
           ELSE IF ~BoundsOk(start_line, end_line, Len(file_lines))
           THEN /\ ed_ret' = Result("ValueError: boundaries", <<>>)
                /\ UNCHANGED file
           ELSE /\ ed_ret' = Result("returned", <<>>)
                /\ file' = Flatten(SubstituteLines(file_lines, line_range,
                                                   start_line, end_line, code))

\* CodeFileManager.update_code_segment
UpdateCodeSegment(line_range, updated_code) ==
    LET file_lines == ReadLines(file)
        line_count == Len(file_lines)
        norm == NormalizeLineRange(line_range, line_count, 0)
        start_line == norm[1]
        end_line == norm[2]
        code == IndentedCode(file_lines, start_line, end_line, updated_code)
    IN  /\ ed_pc = "idle"
        /\ ed_pc' = "returned"
        /\ ed_op' = [name |-> "update", range |-> line_range, text |-> updated_code]
        /\ ed_before' = file
        /\ UNCHANGED fs_exists
        /\ IF ~fs_exists
           THEN /\ ed_ret' = Result("returned", <<>>)
                /\ UNCHANGED file
           ELSE IF ~RangeShapeOk(line_range)
           THEN /\ ed_ret' = Result("ValueError: shape", <<>>)
                /\ UNCHANGED file
           ELSE IF ~BoundsOk(start_line, end_line, Len(file_lines))
           THEN /\ ed_ret' = Result("ValueError: boundaries", <<>>)
                /\ UNCHANGED file
           ELSE /\ ed_ret' = Result("returned", <<>>)
                /\ file' = Flatten(SubstituteLines(file_lines, line_range,
                                                   start_line, end_line, code))

\* CodeFileManager.get_code_segment
GetCodeSegment(line_range) ==
    LET file_lines == ReadLines(file)
        norm == NormalizeLineRange(line_range, Len(file_lines), 0)
    IN  /\ ed_pc = "idle"
        /\ ed_pc' = "returned"
        /\ ed_op' = [name |-> "get", range |-> line_range, text |-> <<>>]
        /\ ed_before' = file
        /\ UNCHANGED <<fs_exists, file>>
        /\ ed_ret' =
              IF ~fs_exists THEN Result("returned", <<>>)
              ELSE IF ~RangeShapeOk(line_range)
              THEN Result("ValueError: shape", <<>>)
              ELSE Result("returned",
                          Flatten(PySlice(file_lines, norm[1] - 1, norm[2])))

\* mutant of GetFileText: the FileNotFoundError is not handled
GetFileTextUnhandled ==
    /\ ed_pc = "idle"
    /\ ed_pc' = "returned"
    /\ ed_op' = [name |-> "read", range |-> OtherRange, text |-> <<>>]
    /\ ed_before' = file
    /\ UNCHANGED <<fs_exists, file>>
    /\ ed_ret' = IF ~fs_exists THEN Result("FileNotFoundError", <<>>)
                 ELSE Result("returned", file)

\* CodeFileManager.get_file_text
GetFileText ==
    /\ ed_pc = "idle"
    /\ ed_pc' = "returned"
    /\ ed_op' = [name |-> "read", range |-> OtherRange, text |-> <<>>]
    /\ ed_before' = file
    /\ UNCHANGED <<fs_exists, file>>
    /\ ed_ret' = IF ~fs_exists THEN Result("returned", <<>>)
                 ELSE Result("returned", file)

UpdateAction ==
    \E r \in Ranges, t \in NewTexts : UpdateCodeSegment(r, t) /\ UNCHANGED nonEditVars
GetAction == \E r \in Ranges : GetCodeSegment(r) /\ UNCHANGED nonEditVars
GetFileTextAction == GetFileText /\ UNCHANGED nonEditVars

EditNext == UpdateAction \/ GetAction \/ GetFileTextAction

\* no source file is being edited
EditIdle ==
    /\ fs_exists = FALSE
    /\ file = <<>>
    /\ ed_before = <<>>
    /\ ed_pc = "idle"
    /\ ed_op = NoEdit
    /\ ed_ret = Result("none", <<>>)

---------------------------------------------------------------------------
(* CodeFileManager._normalize_line_range called on its own *)

\* the largest padding of a call
MaxPadding == 2

NoNormalize == [range |-> OtherRange, line_count |-> 0, padding |-> 0]

NormInit ==
    /\ nm_call = NoNormalize
    /\ nm_ret = Result("none", <<>>)

\* CodeFileManager._normalize_line_range
NormalizeCall(line_range, line_count, padding) ==
    /\ nm_ret.kind = "none"
    /\ nm_call' = [range |-> line_range, line_count |-> line_count,
                   padding |-> padding]
    /\ nm_ret' = IF RangeShapeOk(line_range)
                 THEN Result("returned",
                             NormalizeLineRange(line_range, line_count, padding))
                 ELSE Result("ValueError: shape", <<>>)

NormalizeAction ==
    \E r \in Ranges, n \in 0..MaxLines, p \in 0..MaxPadding :
        NormalizeCall(r, n, p) /\ UNCHANGED nonNormVars

NormNext == NormalizeAction

---------------------------------------------------------------------------
(* GitManager: names, commits and the listings of git                      *)
(* A branch name is the sequence of its "-"-separated parts, a commit is   *)
(* its short id (hexsha[:7]).                                              *)

BotPrefix == "tech-debt-bot"
\* bot_name of initialize, written to user.name
BotName == "TechDebotBot"
\* the author_name initialize hands to _cleanup_obsolete_branches
CleanupAuthor == "Timo"
MainBranch == <<"main">>
\* the commit origin's default branch points to when it is cloned
HeadRev == "c0ffee0"
\* an earlier commit, the tip of every other branch found on origin
OldRev == "0ddba11"
\* the ids of the commits this clone records, in order
NewRevs == <<"1111111", "2222222", "3333333", "4444444">>

\* mutant of BranchName: the revision comes before the identifier
BranchNameSwapped(identifier, latest_commit) == <<BotPrefix, latest_commit, identifier>>

\* f"tech-debt-bot-{identifier}-{latest_commit}"
BranchName(identifier, latest_commit) == <<BotPrefix, identifier, latest_commit>>

\* git branch --list "*tech-debt-bot-*": the prefix, followed by a "-"
MatchesBotPattern(name) == \E i \in 1..(Len(name) - 1) : name[i] = BotPrefix

\* branch_id in branch
NameContains(name, branch_id) == \E i \in DOMAIN name : name[i] = branch_id

RemoteBranch(name, tip, author) == [name |-> name, tip |-> tip, author |-> author]

RemoteNames == {b.name : b \in g_remote}

\* the branch of origin with this name
RemoteOf(name) == CHOOSE b \in g_remote : b.name = name

\* one git or HTTP operation
GitOp(o, branch, arg, status) ==
    [op |-> o, branch |-> branch, arg |-> arg, status |-> status]

NoGitCall == [name |-> "none", arg |-> ""]

---------------------------------------------------------------------------
(* GitManager: inputs *)

\* the most branches origin has besides its default branch
MaxBranches == 2
\* the most commits the clone records
MaxCommits == 1
\* the most public calls made on the manager besides initialize
MaxCalls == 4

Identifiers == {"T1", "T2"}
Authors == {BotName, CleanupAuthor, "Alice"}
Bases == {"main"}
\* the status codes of the pull-request endpoint: created, or refused
Statuses == {"201", "422"}

\* the names origin's other branches may have, in the order git lists them
RemoteOrder ==
    << <<"feature">>,
       BranchName("T1", OldRev),
       BranchName("T1", HeadRev),
       BranchName("T2", OldRev) >>

ExtraNames == {RemoteOrder[i] : i \in DOMAIN RemoteOrder}

InitialRemotes ==
    UNION {{{RemoteBranch(MainBranch, HeadRev, "Alice")}
            \cup {RemoteBranch(n, OldRev, a[n]) : n \in S} :
               a \in [S -> Authors]} :
           S \in {T \in SUBSET ExtraNames : Cardinality(T) <= MaxBranches}}

---------------------------------------------------------------------------
(* GitManager: the private helpers *)

\* GitManager._current_revision_id
CurrentRevisionId == g_local[g_head]

\* GitManager._find_automation_branches, on the fresh clone: the
\* remote-tracking branches that match the pattern, in listing order
FindAutomationBranches ==
    SelectSeq(RemoteOrder,
              LAMBDA n : n \in RemoteNames /\ MatchesBotPattern(n))

\* mutant of ShouldRemoveBranch: the current revision does not protect a branch
ShouldRemoveBranchAnyRevision(branch, author_name, current_branch_id) ==
    RemoteOf(branch).author = author_name

\* GitManager._should_remove_branch
ShouldRemoveBranch(branch, author_name, current_branch_id) ==
    IF NameContains(branch, current_branch_id)
    THEN FALSE
    ELSE RemoteOf(branch).author = author_name

\* GitManager._check_branch_presence: git branch -a lists the local branches
\* and the remote-tracking ones
CheckBranchPresence(branch_id) ==
    \E n \in (DOMAIN g_local) \cup RemoteNames : NameContains(n, branch_id)

\* the manager is between two public calls
GitAtRest == g_pc \in {"new", "done", "failed"}

---------------------------------------------------------------------------
(* GitManager: the operations *)

\* GitManager.__init__, and an origin with its branches
GitInit ==
    /\ g_pc = "new"
    /\ g_url_ok \in BOOLEAN
    /\ g_tree = FALSE
    /\ g_remote \in InitialRemotes
    /\ g_local = <<>>
    /\ g_head = <<>>
    /\ g_upstream = {}
    /\ g_user = ""
    /\ g_feature = <<>>
    /\ g_dirty = FALSE
    /\ g_commits = 0
    /\ g_calls = 0
    /\ g_latest = ""
    /\ g_todo = <<>>
    /\ g_call = NoGitCall
    /\ g_ret = Result("none", "")
    /\ g_ops = <<>>
    /\ g_deleted = {}

\* mutant of InitializeExtract: the URL is not matched against the pattern
InitializeExtractUnchecked ==
    /\ g_pc = "new"
    /\ g_call' = [name |-> "initialize", arg |-> ""]
    /\ g_ops' = <<>>
    /\ IF TRUE
       THEN /\ g_pc' = "extracted"
            /\ g_ret' = Result("running", "")
       ELSE /\ g_pc' = "failed"
            /\ g_ret' = Result("ValueError: Invalid repository URL", "")
    /\ UNCHANGED <<g_url_ok, g_tree, g_remote, g_local, g_head, g_upstream,
                   g_user, g_feature, g_dirty, g_commits, g_calls, g_latest, g_todo,
                   g_deleted>>

\* initialize, line 43: _extract_repository_info
InitializeExtract ==
    /\ g_pc = "new"
    /\ g_call' = [name |-> "initialize", arg |-> ""]
    /\ g_ops' = <<>>
    /\ IF g_url_ok
       THEN /\ g_pc' = "extracted"
            /\ g_ret' = Result("running", "")
       ELSE /\ g_pc' = "failed"
            /\ g_ret' = Result("ValueError: Invalid repository URL", "")
    /\ UNCHANGED <<g_url_ok, g_tree, g_remote, g_local, g_head, g_upstream,
                   g_user, g_feature, g_dirty, g_commits, g_calls, g_latest, g_todo,
                   g_deleted>>

\* initialize, lines 44-49: Repo.clone_from, which the network may fail
InitializeClone ==
    /\ g_pc = "extracted"
    /\ g_ops' = Append(g_ops, GitOp("clone", <<>>, "", ""))
    /\ \/ /\ g_pc' = "cloned"
          /\ g_tree' = TRUE
          /\ g_local' = (MainBranch :> RemoteOf(MainBranch).tip)
          /\ g_head' = MainBranch
          /\ g_upstream' = {MainBranch}
          /\ UNCHANGED g_ret
       \/ /\ g_pc' = "failed"
          /\ g_ret' = Result("GitCommandError", "clone")
          /\ UNCHANGED <<g_tree, g_local, g_head, g_upstream>>
    /\ UNCHANGED <<g_url_ok, g_remote, g_user, g_feature, g_dirty, g_commits, g_calls,
                   g_latest, g_todo, g_call, g_deleted>>

\* initialize, lines 50-58: the bot identity, the current revision and the
\* list of branches the cleanup will examine
InitializeConfigure ==
    /\ g_pc = "cloned"
    /\ g_pc' = "cleanup"
    /\ g_user' = BotName
    /\ g_latest' = CurrentRevisionId
    /\ g_todo' = FindAutomationBranches
    /\ g_ops' = g_ops \o <<GitOp("config user.name", <<>>, BotName, ""),
                           GitOp("rev-parse HEAD", <<>>, CurrentRevisionId, ""),
                           GitOp("branch -a --list", <<>>, BotPrefix, "")>>
    /\ UNCHANGED <<g_url_ok, g_tree, g_remote, g_local, g_head, g_upstream,
                   g_feature, g_dirty, g_commits, g_calls, g_call, g_ret, g_deleted>>

\* _cleanup_obsolete_branches, lines 201-207: one iteration of the loop; the
\* push of _remove_branch may fail, and nothing catches its exception
CleanupStep ==
    /\ g_pc = "cleanup"
    /\ g_todo # <<>>
    /\ LET branch == Head(g_todo)
       IN  IF ShouldRemoveBranch(branch, CleanupAuthor, g_latest)
           THEN /\ g_ops' = Append(g_ops, GitOp("push --delete", branch, "", ""))
                /\ \/ /\ g_remote' = g_remote \ {RemoteOf(branch)}
                      /\ g_deleted' = g_deleted \cup {RemoteOf(branch)}
                      /\ g_todo' = Tail(g_todo)
                      /\ UNCHANGED <<g_pc, g_ret>>
                   \/ /\ g_pc' = "failed"
                      /\ g_ret' = Result("GitCommandError", "push --delete")
                      /\ UNCHANGED <<g_remote, g_deleted, g_todo>>
           ELSE /\ g_todo' = Tail(g_todo)
                /\ UNCHANGED <<g_pc, g_ret, g_ops, g_remote, g_deleted>>
    /\ UNCHANGED <<g_url_ok, g_tree, g_local, g_head, g_upstream, g_user,
                   g_feature, g_dirty, g_commits, g_calls, g_latest, g_call>>

\* initialize, line 60: the result of _check_branch_presence
InitializeFinish ==
    /\ g_pc = "cleanup"
    /\ g_todo = <<>>
    /\ g_pc' = "done"
    /\ g_ops' = Append(g_ops, GitOp("branch -a", <<>>, g_latest, ""))
    /\ g_ret' = Result("returned",
                       IF CheckBranchPresence(g_latest) THEN "True" ELSE "False")
    /\ UNCHANGED <<g_url_ok, g_tree, g_remote, g_local, g_head, g_upstream,
                   g_user, g_feature, g_dirty, g_commits, g_calls, g_latest, g_todo,
                   g_call, g_deleted>>

\* mutant of CreateFeatureBranch: checkout -B, an existing branch is reset
CreateFeatureBranchResetting(identifier) ==
    LET latest_commit == CurrentRevisionId
        name == BranchName(identifier, latest_commit)
    IN  /\ GitAtRest
        /\ g_calls < MaxCalls
        /\ g_calls' = g_calls + 1
        /\ g_call' = [name |-> "create_feature_branch", arg |-> identifier]
        /\ IF ~g_tree
           THEN /\ g_ret' = Result("ValueError: Repository is not initialized", "")
                /\ g_ops' = <<>>
                /\ UNCHANGED <<g_feature, g_local, g_head>>
           ELSE /\ g_feature' = name
                /\ IF name \in DOMAIN g_local
                   THEN /\ g_ret' = Result("returned", "None")
                        /\ g_head' = name
                        /\ g_local' = [g_local EXCEPT ![name] = g_local[MainBranch]]
                   ELSE /\ g_ret' = Result("returned", "None")
                        /\ g_head' = name
                        /\ g_local' = (name :> g_local[MainBranch]) @@ g_local
                /\ g_ops' = <<GitOp("symbolic-ref", <<>>, "refs/remotes/origin/HEAD", ""),
                              GitOp("checkout", MainBranch, "", ""),
                              GitOp("checkout -b", name, "", "")>>
        /\ UNCHANGED <<g_pc, g_url_ok, g_tree, g_remote, g_upstream, g_user,
                       g_dirty, g_commits, g_latest, g_todo, g_deleted>>

\* GitManager.create_feature_branch
CreateFeatureBranch(identifier) ==
    LET latest_commit == CurrentRevisionId
        name == BranchName(identifier, latest_commit)
    IN  /\ GitAtRest
        /\ g_calls < MaxCalls
        /\ g_calls' = g_calls + 1
        /\ g_call' = [name |-> "create_feature_branch", arg |-> identifier]
        /\ IF ~g_tree
           THEN /\ g_ret' = Result("ValueError: Repository is not initialized", "")
                /\ g_ops' = <<>>
                /\ UNCHANGED <<g_feature, g_local, g_head>>
           ELSE /\ g_feature' = name
                /\ IF name \in DOMAIN g_local
                   THEN /\ g_ret' = Result("GitCommandError", "checkout -b")
                        /\ g_head' = MainBranch
                        /\ UNCHANGED g_local
                   ELSE /\ g_ret' = Result("returned", "None")
                        /\ g_head' = name
                        /\ g_local' = (name :> g_local[MainBranch]) @@ g_local
                /\ g_ops' = <<GitOp("symbolic-ref", <<>>, "refs/remotes/origin/HEAD", ""),
                              GitOp("checkout", MainBranch, "", ""),
                              GitOp("checkout -b", name, "", "")>>
        /\ UNCHANGED <<g_pc, g_url_ok, g_tree, g_remote, g_upstream, g_user,
                       g_dirty, g_commits, g_latest, g_todo, g_deleted>>

\* GitManager.stage_and_record; git commit fails when nothing is staged
StageAndRecord ==
    /\ GitAtRest
    /\ g_calls < MaxCalls
    /\ g_calls' = g_calls + 1
    /\ g_call' = [name |-> "stage_and_record", arg |-> ""]
    /\ IF ~g_tree
       THEN /\ g_ret' = Result("ValueError: Repository is not initialized", "")
            /\ g_ops' = <<>>
            /\ UNCHANGED <<g_local, g_dirty, g_commits>>
       ELSE /\ g_ops' = <<GitOp("add", g_head, ".", ""),
                          GitOp("commit", g_head, "", "")>>
            /\ IF g_dirty
               THEN /\ g_ret' = Result("returned", "None")
                    /\ g_local' = [g_local EXCEPT ![g_head] = NewRevs[g_commits + 1]]
                    /\ g_commits' = g_commits + 1
                    /\ g_dirty' = FALSE
               ELSE /\ g_ret' = Result("GitCommandError", "commit")
                    /\ UNCHANGED <<g_local, g_dirty, g_commits>>
    /\ UNCHANGED <<g_pc, g_url_ok, g_tree, g_remote, g_head, g_upstream, g_user,
                   g_feature, g_latest, g_todo, g_deleted>>

\* mutant of PublishAndVerifyRemote: the push does not record the upstream
PublishWithoutTracking ==
    /\ GitAtRest
    /\ g_calls < MaxCalls
    /\ g_calls' = g_calls + 1
    /\ g_call' = [name |-> "publish_and_verify_remote", arg |-> ""]
    /\ IF ~g_tree
       THEN /\ g_ret' = Result("AttributeError: 'NoneType' object has no attribute 'active_branch'", "")
            /\ g_ops' = <<>>
            /\ UNCHANGED <<g_remote, g_upstream>>
       ELSE LET current_branch == g_head
                tracking_branch == current_branch \in g_upstream
                pushed == RemoteBranch(current_branch, g_local[current_branch],
                                       g_user)
                refused == /\ current_branch \in RemoteNames
                           /\ RemoteOf(current_branch).tip = OldRev
            IN  /\ g_ops' = <<GitOp("rev-parse @{u}", current_branch, "", ""),
                              IF tracking_branch
                              THEN GitOp("push", current_branch, "", "")
                              ELSE GitOp("push --set-upstream", current_branch,
                                         "origin", "")>>
                /\ IF refused
                   THEN /\ g_ret' = Result("GitCommandError", "push")
                        /\ UNCHANGED <<g_remote, g_upstream>>
                   ELSE /\ g_ret' = Result("returned", "None")
                        /\ g_remote' =
                              IF /\ current_branch \in RemoteNames
                                 /\ RemoteOf(current_branch).tip = pushed.tip
                              THEN g_remote
                              ELSE {b \in g_remote : b.name # current_branch}
                                   \cup {pushed}
                        /\ UNCHANGED g_upstream
    /\ UNCHANGED <<g_pc, g_url_ok, g_tree, g_local, g_head, g_user, g_feature,
                   g_dirty, g_commits, g_latest, g_todo, g_deleted>>

\* GitManager.publish_and_verify_remote; origin refuses a push onto a branch
\* whose tip is not an ancestor of the pushed commit
PublishAndVerifyRemote ==
    /\ GitAtRest
    /\ g_calls < MaxCalls
    /\ g_calls' = g_calls + 1
    /\ g_call' = [name |-> "publish_and_verify_remote", arg |-> ""]
    /\ IF ~g_tree
       THEN /\ g_ret' = Result("AttributeError: 'NoneType' object has no attribute 'active_branch'", "")
            /\ g_ops' = <<>>
            /\ UNCHANGED <<g_remote, g_upstream>>
       ELSE LET current_branch == g_head
                tracking_branch == current_branch \in g_upstream
                pushed == RemoteBranch(current_branch, g_local[current_branch],
                                       g_user)
                refused == /\ current_branch \in RemoteNames
                           /\ RemoteOf(current_branch).tip = OldRev
            IN  /\ g_ops' = <<GitOp("rev-parse @{u}", current_branch, "", ""),
                              IF tracking_branch
                              THEN GitOp("push", current_branch, "", "")
                              ELSE GitOp("push --set-upstream", current_branch,
                                         "origin", "")>>
                /\ IF refused
                   THEN /\ g_ret' = Result("GitCommandError", "push")
                        /\ UNCHANGED <<g_remote, g_upstream>>
                   ELSE /\ g_ret' = Result("returned", "None")
                        /\ g_remote' =
                              IF /\ current_branch \in RemoteNames
                                 /\ RemoteOf(current_branch).tip = pushed.tip
                              THEN g_remote
                              ELSE {b \in g_remote : b.name # current_branch}
                                   \cup {pushed}
                        /\ g_upstream' = g_upstream \cup {current_branch}
    /\ UNCHANGED <<g_pc, g_url_ok, g_tree, g_local, g_head, g_user, g_feature,
                   g_dirty, g_commits, g_latest, g_todo, g_deleted>>

\* mutant of CreateMergeRequest: a status other than 201 raises
CreateMergeRequestRaising(base, status) ==
    /\ GitAtRest
    /\ g_calls < MaxCalls
    /\ g_calls' = g_calls + 1
    /\ g_call' = [name |-> "create_merge_request", arg |-> base]
    /\ IF ~g_tree
       THEN /\ g_ret' = Result("ValueError: Repository is not initialized", "")
            /\ g_ops' = <<>>
       ELSE /\ g_ret' = IF status = "201" THEN Result("returned", "None")
                        ELSE Result("HTTPError", status)
            /\ g_ops' = <<GitOp("POST", g_feature, base, status)>>
    /\ UNCHANGED <<g_pc, g_url_ok, g_tree, g_remote, g_local, g_head,
                   g_upstream, g_user, g_feature, g_dirty, g_commits, g_latest,
                   g_todo, g_deleted>>

\* GitManager.create_merge_request, the endpoint answering with this status
CreateMergeRequest(base, status) ==
    /\ GitAtRest
    /\ g_calls < MaxCalls
    /\ g_calls' = g_calls + 1
    /\ g_call' = [name |-> "create_merge_request", arg |-> base]
    /\ IF ~g_tree
       THEN /\ g_ret' = Result("ValueError: Repository is not initialized", "")
            /\ g_ops' = <<>>
       ELSE /\ g_ret' = Result("returned", "None")
            /\ g_ops' = <<GitOp("POST", g_feature, base, status)>>
    /\ UNCHANGED <<g_pc, g_url_ok, g_tree, g_remote, g_local, g_head,
                   g_upstream, g_user, g_feature, g_dirty, g_commits, g_latest,
                   g_todo, g_deleted>>

\* the workflow edits a file of the clone between two calls
WorkingTreeChange ==
    /\ GitAtRest
    /\ g_tree
    /\ ~g_dirty
    /\ g_commits < MaxCommits
    /\ g_dirty' = TRUE
    /\ UNCHANGED <<g_pc, g_url_ok, g_tree, g_remote, g_local, g_head,
                   g_upstream, g_user, g_feature, g_commits, g_calls, g_latest, g_todo,
                   g_call, g_ret, g_ops, g_deleted>>

InitializeExtractAction == InitializeExtract /\ UNCHANGED nonGitVars
InitializeCloneAction == InitializeClone /\ UNCHANGED nonGitVars
InitializeConfigureAction == InitializeConfigure /\ UNCHANGED nonGitVars
CleanupStepAction == CleanupStep /\ UNCHANGED nonGitVars
InitializeFinishAction == InitializeFinish /\ UNCHANGED nonGitVars
CreateFeatureBranchAction ==
    \E identifier \in Identifiers :
        CreateFeatureBranch(identifier) /\ UNCHANGED nonGitVars
StageAndRecordAction == StageAndRecord /\ UNCHANGED nonGitVars
PublishAction == PublishAndVerifyRemote /\ UNCHANGED nonGitVars
CreateMergeRequestAction ==
    \E base \in Bases, status \in Statuses :
        CreateMergeRequest(base, status) /\ UNCHANGED nonGitVars
WorkingTreeChangeAction == WorkingTreeChange /\ UNCHANGED nonGitVars

GitNext ==
    \/ InitializeExtractAction
    \/ InitializeCloneAction
    \/ InitializeConfigureAction
    \/ CleanupStepAction
    \/ InitializeFinishAction
    \/ CreateFeatureBranchAction
    \/ StageAndRecordAction
    \/ PublishAction
    \/ CreateMergeRequestAction
    \/ WorkingTreeChangeAction

\* no manager has been constructed
GitIdle ==
    /\ g_pc = "new"
    /\ g_url_ok = FALSE
    /\ g_tree = FALSE
    /\ g_remote = {}
    /\ g_local = <<>>
    /\ g_head = <<>>
    /\ g_upstream = {}
    /\ g_user = ""
    /\ g_feature = <<>>
    /\ g_dirty = FALSE
    /\ g_commits = 0
    /\ g_calls = 0
    /\ g_latest = ""
    /\ g_todo = <<>>
    /\ g_call = NoGitCall
    /\ g_ret = Result("none", "")
    /\ g_ops = <<>>
    /\ g_deleted = {}

---------------------------------------------------------------------------
(* LLModel (src/src/models/__init__.py) and the cache it is given *)

\* the methods DataStore declares and its two subclasses define
DataStoreMethods == {"store", "remove", "contains", "retrieve"}

\* getattr(self._cache, method) succeeds
HasMethod(method) == method \in DataStoreMethods

\* the system message and the user message a length-checked call starts with
SystemMessage == [role |-> "system", content |-> <<>>]
UserMessage(prompt) == [role |-> "user", content |-> prompt]
AssistantMessage(response) == [role |-> "assistant", content |-> response]
\* "The previous message was too long (<n> characters). Please generate a
\* message with less than <max_length> characters.": the fixed wording is -1
CorrectionMessage(n, max_length) == [role |-> "user", content |-> <<-1, n, max_length>>]

\* is_valid_length
IsValidLength(message, max_length) == Len(message) <= max_length

\* one cache lookup or one request to the provider
LookupEvent(prompt, outcome) ==
    [kind |-> "lookup", prompt |-> prompt, outcome |-> outcome]
ProviderEvent(prompt) ==
    [kind |-> "provider", prompt |-> prompt, outcome |-> "sent"]

\* the number of requests the call has sent to the provider
ProviderCalls == Cardinality({i \in DOMAIN l_events : l_events[i].kind = "provider"})

\* the largest max_length and the largest max_retries of a call
MaxLength == 2
MaxRetries == 2

Formats == {"json_object", "text"}
CacheKinds == {"FileBasedStore", "NullDataStore"}
CompletionKeys == Queries \X Formats

NoLLMCall ==
    [name |-> "none", prompt |-> NoQuery, fmt |-> "", max_length |-> 0,
     max_retries |-> 0, first |-> FALSE]

\* LLModel.__init__ with a cache given
LLMInit ==
    /\ l_cache \in CacheKinds
    /\ l_pc = "idle"
    /\ l_call = NoLLMCall
    /\ l_ret = Result("none", <<>>)
    /\ l_messages = <<>>
    /\ l_i = 0
    /\ l_events = <<>>
    /\ l_first = [k \in CompletionKeys |-> Result("none", <<>>)]

\* LLModel.get_completion: _get_completion_json and _get_completion_text both
\* begin with self._cache.lookup(prompt), and no DataStore has that method;
\* the statements after it (get_answer, the provider request, update) are
\* reached only if the attribute exists
GetCompletion(prompt, resp_fmt_type) ==
    LET key == <<prompt, resp_fmt_type>>
        first == l_first[key].kind = "none"
        result == Result("AttributeError: no attribute 'lookup'", <<>>)
    IN  /\ l_pc = "idle"
        /\ ~HasMethod("lookup")
        /\ l_call' = [name |-> "get_completion", prompt |-> prompt,
                      fmt |-> resp_fmt_type, max_length |-> 0,
                      max_retries |-> 0, first |-> first]
        /\ l_events' = <<LookupEvent(prompt, "AttributeError")>>
        /\ l_ret' = result
        /\ l_first' = IF first THEN [l_first EXCEPT ![key] = result] ELSE l_first
        /\ UNCHANGED <<l_cache, l_pc, l_messages, l_i>>

\* get_completion_with_length_check, lines 76-85: the message list
LengthCheckStart(prompt, max_length, max_retries) ==
    /\ l_pc = "idle"
    /\ l_pc' = "loop"
    /\ l_call' = [name |-> "get_completion_with_length_check",
                  prompt |-> prompt, fmt |-> "text", max_length |-> max_length,
                  max_retries |-> max_retries, first |-> FALSE]
    /\ l_messages' = <<SystemMessage, UserMessage(prompt)>>
    /\ l_i' = 0
    /\ l_events' = <<>>
    /\ l_ret' = Result("running", <<>>)
    /\ UNCHANGED <<l_cache, l_first>>

\* get_completion_with_length_check, lines 87-107: one iteration of the loop,
\* the provider answering with this response
LengthCheckIterate(response) ==
    /\ l_pc = "loop"
    /\ l_i < l_call.max_retries
    /\ l_events' = Append(l_events, ProviderEvent(l_call.prompt))
    /\ IF IsValidLength(response, l_call.max_length)
       THEN /\ l_pc' = "idle"
            /\ l_ret' = Result("returned", <<l_call.prompt, response>>)
            /\ UNCHANGED <<l_messages, l_i>>
       ELSE /\ l_messages' = l_messages \o
                   <<AssistantMessage(response),
                     CorrectionMessage(Len(response), l_call.max_length)>>
            /\ l_i' = l_i + 1
            /\ UNCHANGED <<l_pc, l_ret>>
    /\ UNCHANGED <<l_cache, l_call, l_first>>

\* get_completion_with_length_check, line 109: the loop is exhausted; the
\* name response is unbound when the loop body never ran
LengthCheckExhausted ==
    /\ l_pc = "loop"
    /\ l_i = l_call.max_retries
    /\ l_pc' = "idle"
    /\ l_ret' = IF l_i = 0
                THEN Result("UnboundLocalError", <<>>)
                ELSE Result("returned",
                            <<l_call.prompt,
                              l_messages[Len(l_messages) - 1].content>>)
    /\ UNCHANGED <<l_cache, l_call, l_messages, l_i, l_events, l_first>>

GetCompletionAction ==
    \E prompt \in Queries, fmt \in Formats :
        GetCompletion(prompt, fmt) /\ UNCHANGED nonLLMVars
LengthCheckStartAction ==
    \E prompt \in Queries, max_length \in 0..MaxLength, max_retries \in 0..MaxRetries :
        LengthCheckStart(prompt, max_length, max_retries) /\ UNCHANGED nonLLMVars
LengthCheckIterateAction ==
    \E response \in Answers : LengthCheckIterate(response) /\ UNCHANGED nonLLMVars
LengthCheckExhaustedAction == LengthCheckExhausted /\ UNCHANGED nonLLMVars

LLMNext ==
    \/ GetCompletionAction
    \/ LengthCheckStartAction
    \/ LengthCheckIterateAction
    \/ LengthCheckExhaustedAction

\* no model client has been constructed
LLMIdle ==
    /\ l_cache = "NullDataStore"
    /\ l_pc = "idle"
    /\ l_call = NoLLMCall
    /\ l_ret = Result("none", <<>>)
    /\ l_messages = <<>>
    /\ l_i = 0
    /\ l_events = <<>>
    /\ l_first = [k \in CompletionKeys |-> Result("none", <<>>)]

---------------------------------------------------------------------------
(* NullDataStore (src/src/tools/data_store.py): it has no attribute besides *)
(* those of DataStore.__init__, so the model gives it no variable but the   *)
(* record of the calls made.                                               *)

\* the most calls made on the NullDataStore
MaxNullCalls == 2

NullCallRecord(name, query, result, returned) ==
    [name |-> name, query |-> query, result |-> result, ret |-> returned]

\* mutant of NullContains: a query that was stored is reported present
NullContainsRemembering(query) ==
    IF \E i \in DOMAIN n_hist :
          n_hist[i].name = "store" /\ n_hist[i].query = query
    THEN "True" ELSE "False"

\* NullDataStore.contains
NullContains(query) == "False"

\* NullDataStore.store
NullStore(query, result) == "False"

\* NullDataStore.remove: the function body ends without a return
NullRemove(query) == "None"

\* NullDataStore.retrieve: the function body ends without a return
NullRetrieve(query) == "None"

NullInit == n_hist = <<>>

NullContainsCall(query) ==
    /\ Len(n_hist) < MaxNullCalls
    /\ n_hist' = Append(n_hist, NullCallRecord("contains", query, NoAnswer,
                                               NullContains(query)))

NullStoreCall(query, result) ==
    /\ Len(n_hist) < MaxNullCalls
    /\ n_hist' = Append(n_hist, NullCallRecord("store", query, result,
                                               NullStore(query, result)))

NullRemoveCall(query) ==
    /\ Len(n_hist) < MaxNullCalls
    /\ n_hist' = Append(n_hist, NullCallRecord("remove", query, NoAnswer,
                                               NullRemove(query)))

NullRetrieveCall(query) ==
    /\ Len(n_hist) < MaxNullCalls
    /\ n_hist' = Append(n_hist, NullCallRecord("retrieve", query, NoAnswer,
                                               NullRetrieve(query)))

NullContainsAction == \E q \in Queries : NullContainsCall(q) /\ UNCHANGED nonNullVars
NullStoreAction ==
    \E q \in Queries, a \in Answers : NullStoreCall(q, a) /\ UNCHANGED nonNullVars
NullRemoveAction == \E q \in Queries : NullRemoveCall(q) /\ UNCHANGED nonNullVars
NullRetrieveAction == \E q \in Queries : NullRetrieveCall(q) /\ UNCHANGED nonNullVars

NullNext ==
    \/ NullContainsAction
    \/ NullStoreAction
    \/ NullRemoveAction
    \/ NullRetrieveAction

---------------------------------------------------------------------------
(* The specifications *)

\* the cache under calls, no file being edited
InitCache == CacheInit /\ EditIdle /\ NormInit /\ GitIdle /\ LLMIdle /\ NullInit
SpecCache == InitCache /\ [][CacheNext]_vars

\* one CodeFileManager call on a file, the cache untouched
InitEdit == EditInit /\ CacheInit /\ NormInit /\ GitIdle /\ LLMIdle /\ NullInit

\* one _normalize_line_range call, nothing else touched
InitNorm == NormInit /\ CacheInit /\ EditIdle /\ GitIdle /\ LLMIdle /\ NullInit
SpecNorm == InitNorm /\ [][NormNext]_vars

\* one manager on one origin, from construction on
InitGit == GitInit /\ CacheInit /\ EditIdle /\ NormInit /\ LLMIdle /\ NullInit
SpecGit == InitGit /\ [][GitNext]_vars

\* one model client with its cache, from construction on
InitLLM == LLMInit /\ CacheInit /\ EditIdle /\ NormInit /\ GitIdle /\ NullInit
SpecLLM == InitLLM /\ [][LLMNext]_vars

\* calls on one NullDataStore, nothing else touched
InitNull == NullInit /\ CacheInit /\ EditIdle /\ NormInit /\ GitIdle /\ LLMIdle
SpecNull == InitNull /\ [][NullNext]_vars
SpecEdit == InitEdit /\ [][EditNext]_vars

---------------------------------------------------------------------------
(* Claims about the durable cache, checked under SpecCache *)

\* C1: a query that is present and retrieves the answer of the store call that
\* created its entry still retrieves that answer after any further call that
\* leaves it present (removing another query or storing a new one never
\* changes, misdirects or loses its answer).
C1_AnswerSurvivesOtherCalls ==
    [][\A q \in Queries :
          (/\ Contains(q)
           /\ RetrieveResult(q) = Result("value", origin[q])
           /\ Contains(q)'
           /\ origin'[q] = origin[q])
          => RetrieveResult(q)' = Result("value", origin[q])]_vars

\* C2: entries are write-once: store on a present query returns False and
\* changes neither the index nor a payload (so retrieve is unchanged); store
\* on an absent query returns True and makes the query present.
C2_StoreIsWriteOnce ==
    [][\A q \in Queries :
          (op'.name = "store" /\ op'.query = q)
          => IF Contains(q)
             THEN /\ ret'.kind = "False"
                  /\ index' = index
                  /\ payloads' = payloads
                  /\ RetrieveResult(q)' = RetrieveResult(q)
             ELSE /\ ret'.kind = "True"
                  /\ Contains(q)']_vars

\* C3: round trip: right after store(q, a) created the entry of q,
\* retrieve(q) returns exactly a.
C3_RoundTrip ==
    (op.name = "store" /\ ret.kind = "True")
    => RetrieveResult(op.query) = Result("value", origin[op.query])

\* C4: remove(q) of a present query deletes its index entry and its own
\* payload (then q is absent, retrieve(q) is None and no payload file written
\* for q remains); remove(q) of an absent query changes nothing.
C4_RemoveDeletesOwnPayload ==
    [][\A q \in Queries :
          (op'.name = "remove" /\ op'.query = q)
          => IF Contains(q)
             THEN /\ ~Contains(q)'
                  /\ RetrieveResult(q)'.kind = "None"
                  /\ \A i \in DOMAIN owner' : owner'[i] # q
             ELSE /\ index' = index
                  /\ payloads' = payloads]_vars

\* C5: a retrieve, or a store on a present query, that finds the payload file
\* of the present query missing yields the benign default (None for retrieve,
\* False for store) and does not raise.
C5_MissingPayloadIsBenign ==
    [][\A q \in Queries :
          (/\ op'.query = q
           /\ op'.name \in {"retrieve", "store"}
           /\ Contains(q)
           /\ ~PayloadExists(PayloadIdOf(q)))
          => ret'.kind = (IF op'.name = "retrieve" THEN "None" ELSE "False")]_vars

---------------------------------------------------------------------------
(* Claims about CodeFileManager, checked under SpecEdit.  They are stated   *)
(* over the file before the call (ed_before), the arguments (ed_op), the   *)
(* outcome (ed_ret) and the file after the call (file).                    *)

\* the file lines before the call, and the range clamped with zero padding
LinesBefore == ReadLines(ed_before)
ClaimStart == IF ed_op.range.lo < 1 THEN 1 ELSE ed_op.range.lo
ClaimEnd ==
    IF ed_op.range.hi > Len(LinesBefore) THEN Len(LinesBefore) ELSE ed_op.range.hi
ClaimRangeValid ==
    /\ 1 <= ClaimStart
    /\ ClaimStart <= ClaimEnd
    /\ ClaimEnd <= Len(LinesBefore)

\* an update / a read of an existing file with an int or 2-tuple range returned
UpdateOfExisting ==
    /\ ed_pc = "returned"
    /\ ed_op.name = "update"
    /\ fs_exists
    /\ ed_op.range.kind \in {"int", "tuple"}
GetOfExisting ==
    /\ ed_pc = "returned"
    /\ ed_op.name = "get"
    /\ fs_exists
    /\ ed_op.range.kind \in {"int", "tuple"}

\* minimum leading-space count over the non-blank lines, 0 if there is none
MinIndent(lines) ==
    LET non_blank == {i \in DOMAIN lines : ~IsBlank(lines[i])}
    IN  IF non_blank = {} THEN 0
        ELSE SetMin({LeadingSpaces(lines[i]) : i \in non_blank})

TargetIndent == MinIndent(SubSeq(LinesBefore, ClaimStart, ClaimEnd))
TextPieces == SplitNewline(ed_op.text)
TextIndent == MinIndent(TextPieces)

\* the lines of the file after the call that stand where the range stood
ReplacementLines ==
    SubSeq(ReadLines(file), ClaimStart, ClaimStart + Len(TextPieces) - 1)

\* C6: an update with an int or 2-tuple range whose normalized bounds violate
\* 1 <= start <= end <= line_count raises the invalid-boundaries error and
\* leaves the file content identical.
C6_BoundsRejected ==
    (UpdateOfExisting /\ ~ClaimRangeValid)
    => (ed_ret.kind = "ValueError: boundaries" /\ file = ed_before)

\* an inverted range (3, 2) on a three-line file was rejected
C6_Witness ==
    /\ UpdateOfExisting
    /\ ed_op.range = TupleRange(3, 2)
    /\ Len(LinesBefore) = 3
    /\ ed_ret.kind = "ValueError: boundaries"

\* C7: a successful update of range (s, e) of a file of n lines yields the
\* lines 1..s-1 unchanged, then new_text (possibly with every line prefixed by
\* the same run of spaces) followed by one newline, then the lines e+1..n
\* unchanged; the file then has n - (e - s + 1) + (lines of new_text) lines.
C7_ReplaceShape ==
    (UpdateOfExisting /\ ed_ret.kind = "returned")
    => /\ ClaimRangeValid
       /\ \E k \in 0..Len(ed_before) :
             file = Flatten(SubSeq(LinesBefore, 1, ClaimStart - 1))
                    \o JoinNewline([i \in DOMAIN TextPieces |->
                                       Spaces(k) \o TextPieces[i]])
                    \o <<"\n">>
                    \o Flatten(SubSeq(LinesBefore, ClaimEnd + 1, Len(LinesBefore)))
       /\ Len(ReadLines(file)) =
             Len(LinesBefore) - (ClaimEnd - ClaimStart + 1) + Len(TextPieces)

\* three lines replaced by a two-line text: the file has two lines
C7_Witness ==
    /\ UpdateOfExisting
    /\ ed_ret.kind = "returned"
    /\ ed_op.range = TupleRange(1, 3)
    /\ Len(LinesBefore) = 3
    /\ Len(TextPieces) = 2
    /\ Len(ReadLines(file)) = 2

\* C8: with k the minimum indent of the target range and c that of new_text,
\* a successful update writes every line of new_text prefixed with k spaces if
\* c < k (so each non-blank replacement line has at least k leading spaces),
\* and writes new_text unmodified if c >= k; no line loses indentation.
C8_IndentPreserved ==
    (UpdateOfExisting /\ ed_ret.kind = "returned")
    => /\ Len(ReplacementLines) = Len(TextPieces)
       /\ \A i \in DOMAIN TextPieces :
             /\ ReplacementLines[i] =
                   (IF TextIndent < TargetIndent
                    THEN Spaces(TargetIndent) ELSE <<>>)
                   \o TextPieces[i] \o <<"\n">>
             /\ LeadingSpaces(ReplacementLines[i]) >= LeadingSpaces(TextPieces[i])
             /\ (TextIndent < TargetIndent /\ ~IsBlank(ReplacementLines[i]))
                => LeadingSpaces(ReplacementLines[i]) >= TargetIndent

\* a two-line text of indent 0 was written into a range of indent 2
C8_Witness ==
    /\ UpdateOfExisting
    /\ ed_ret.kind = "returned"
    /\ TargetIndent = 2
    /\ ed_op.text = <<"x", "\n", " ", "x">>
    /\ ReplacementLines = << <<" ", " ", "x", "\n">>,
                             <<" ", " ", " ", "x", "\n">> >>

\* C9: an update with empty new_text on a valid range succeeds and replaces
\* the whole range by a single blank line (a line of only the k spaces of the
\* target range's indent, none when k = 0), whatever that indent is.
C9_EmptyTextGivesBlankLine ==
    (UpdateOfExisting /\ ClaimRangeValid /\ ed_op.text = <<>>)
    => /\ ed_ret.kind = "returned"
       /\ \E line \in {Spaces(TargetIndent) \o <<"\n">>} :
             /\ IsBlank(line)
             /\ ReadLines(file) =
                   SubSeq(LinesBefore, 1, ClaimStart - 1)
                   \o <<line>>
                   \o SubSeq(LinesBefore, ClaimEnd + 1, Len(LinesBefore))

\* empty text replaced two lines of indent 2 of a three-line file
C9_Witness ==
    /\ UpdateOfExisting
    /\ ed_op.text = <<>>
    /\ ed_op.range = TupleRange(2, 3)
    /\ Len(LinesBefore) = 3
    /\ TargetIndent = 2
    /\ ed_ret.kind = "returned"
    /\ Len(ReadLines(file)) = 2

\* C10: a read of an existing file with an int or 2-tuple range that is
\* degenerate after zero-padding normalization (start > end) returns the
\* empty segment and raises nothing.
C10_DegenerateReadIsEmpty ==
    (GetOfExisting /\ ClaimStart > ClaimEnd)
    => ed_ret = Result("returned", <<>>)

---------------------------------------------------------------------------
(* Claims about missing files and range normalization *)

\* C11: get_code_segment and get_file_text on a path that does not exist
\* return the empty string, raise nothing, and leave the file system as it
\* was (the file is not created).
C11_MissingFileReadsEmpty ==
    [][(/\ ~fs_exists
        /\ ed_pc = "idle"
        /\ ed_pc' = "returned"
        /\ ed_op'.name \in {"get", "read"})
       => /\ ed_ret' = Result("returned", <<>>)
          /\ ~fs_exists'
          /\ file' = file]_vars

\* get_file_text has returned "" for a missing file
C11_Witness ==
    /\ ~fs_exists
    /\ ed_pc = "returned"
    /\ ed_op.name = "read"
    /\ ed_ret = Result("returned", <<>>)

\* C12: for an int r the call returns (max(1, r - padding),
\* min(total_lines, r + padding)), for a tuple (a, b) it returns
\* (max(1, a - padding), min(total_lines, b + padding)); so with
\* total_lines >= 1 and padding >= 0 the result has 1 <= start and
\* end <= total_lines.
C12_NormalizeClamps ==
    (nm_ret.kind = "returned")
    => LET a == nm_call.range.lo
           b == nm_call.range.hi
           n == nm_call.line_count
           p == nm_call.padding
           start == nm_ret.val[1]
           end == nm_ret.val[2]
       IN  /\ (nm_call.range.kind = "int") => (a = b)
           /\ start = (IF a - p >= 1 THEN a - p ELSE 1)
           /\ end = (IF b + p <= n THEN b + p ELSE n)
           /\ (n >= 1 /\ p >= 0) => (1 <= start /\ end <= n)

\* (2, 2) with padding 1 on three lines gave (1, 3); padding widened both ends
C12_Witness ==
    /\ nm_call = [range |-> TupleRange(2, 2), line_count |-> 3, padding |-> 1]
    /\ nm_ret = Result("returned", <<1, 3>>)

\* a call of get_code_segment or update_code_segment on an existing file
CallOfExisting ==
    /\ ed_pc = "returned"
    /\ ed_op.name \in {"get", "update"}
    /\ fs_exists

\* C13: on an existing file the range-shape ValueError is raised exactly when
\* the range is neither an int nor a 2-tuple; an int or 2-tuple never raises
\* it, even when it normalizes to start > end; and update_code_segment with a
\* range of invalid shape raises it without writing the file.
C13_ShapeErrorExactly ==
    CallOfExisting
    => /\ (ed_ret.kind = "ValueError: shape")
          <=> (ed_op.range.kind \notin {"int", "tuple"})
       /\ (ed_op.name = "get" /\ ed_op.range.kind \in {"int", "tuple"})
          => ed_ret.kind = "returned"
       /\ (ed_op.range.kind \notin {"int", "tuple"}) => file = ed_before

\* update_code_segment was given a range that is neither int nor 2-tuple on
\* a non-empty file, raised the shape error and left the file as it was
C13_Witness ==
    /\ CallOfExisting
    /\ ed_op.name = "update"
    /\ ed_op.range = OtherRange
    /\ ed_ret.kind = "ValueError: shape"
    /\ Len(file) > 0
    /\ file = ed_before

---------------------------------------------------------------------------
(* Claims about the branch manager, checked under SpecGit *)

\* the branch is stale in the sense of the specification: it carries the bot
\* prefix, its name does not contain the current short revision, and its
\* last commit was authored by the identity initialize configures
StaleBranch(b) ==
    /\ MatchesBotPattern(b.name)
    /\ ~NameContains(b.name, g_latest)
    /\ b.author = BotName

\* the last public call was made on a manager whose initialize did not
\* complete, and has returned or raised
GuardedCalls == {"create_feature_branch", "stage_and_record", "create_merge_request"}

\* C14: every remote branch the cleanup of initialize deletes matches the bot
\* prefix, does not contain the current short revision in its name, and has
\* its last commit authored by the bot identity that initialize configures;
\* a bot-prefixed branch last authored by anyone else is never deleted.
C14_OnlyBotAuthoredDeleted ==
    \A b \in g_deleted : StaleBranch(b)

\* C15: when initialize has completed, no remote branch is left that matches
\* the bot prefix, does not contain the current short revision in its name
\* and was last authored by the bot identity.
C15_StaleBranchesGone ==
    (g_pc = "done" /\ g_call.name = "initialize")
    => \A b \in g_remote : ~StaleBranch(b)

\* C16: a failed remote deletion during the cleanup does not propagate:
\* initialize never ends by raising the error of the failed push, and no
\* candidate branch is left unexamined because of it.
C16_DeletionFailureContained ==
    (g_ret = Result("GitCommandError", "push --delete"))
    => /\ g_pc # "failed"
       /\ g_todo = <<>>

\* C17: each of create_feature_branch, stage_and_record,
\* publish_and_verify_remote and create_merge_request, called on a manager
\* on which initialize has not been called, raises the not-initialized
\* ValueError and performs no git or HTTP operation.
C17_UninitializedCallsGuarded ==
    (g_pc = "new" /\ g_call.name # "none")
    => /\ g_ret.kind = "ValueError: Repository is not initialized"
       /\ g_ops = <<>>

\* C18: after an initialize that failed, also one that failed after the
\* clone, a call of create_feature_branch, stage_and_record or
\* create_merge_request raises the not-initialized ValueError.
C18_FailedInitializeStaysGuarded ==
    (g_pc = "failed" /\ g_call.name \in GuardedCalls)
    => g_ret.kind = "ValueError: Repository is not initialized"

---------------------------------------------------------------------------
(* Claims about the model client, checked under SpecLLM *)

\* C19: every request to the provider made by get_completion or
\* get_completion_with_length_check comes after a cache lookup for the
\* call's prompt, made by the same call, that missed.
C19_ProviderGuardedByCache ==
    \A i \in DOMAIN l_events :
        (l_events[i].kind = "provider")
        => \E j \in 1..(i - 1) :
              l_events[j] = LookupEvent(l_events[i].prompt, "miss")

\* C20: with a FileBasedStore as cache, every get_completion call returns a
\* value; the first call for a prompt and format sends exactly one request
\* to the provider and leaves the prompt stored in the cache, and a later
\* call for them sends none and returns what the first call returned.
C20_SecondCompletionIsCached ==
    (l_cache = "FileBasedStore" /\ l_call.name = "get_completion")
    => /\ l_ret.kind = "returned"
       /\ Contains(l_call.prompt)
       /\ IF l_call.first
          THEN ProviderCalls = 1
          ELSE /\ ProviderCalls = 0
               /\ l_ret = l_first[<<l_call.prompt, l_call.fmt>>]

---------------------------------------------------------------------------
(* Claims about the no-op cache, checked under SpecNull *)

\* C21: in every sequence of calls on a NullDataStore each contains returns
\* False, each store returns False, each retrieve returns None and each
\* remove returns None, whatever was called before: no call changes a later
\* result.
C21_NullStoreIsStateless ==
    \A i \in DOMAIN n_hist :
        n_hist[i].ret =
            (IF n_hist[i].name \in {"contains", "store"} THEN "False" ELSE "None")

\* a query was stored, and the lookup of it that followed returned False
C21_Witness ==
    /\ Len(n_hist) = 2
    /\ n_hist[1].name = "store"
    /\ n_hist[2].name = "contains"
    /\ n_hist[2].query = n_hist[1].query
    /\ n_hist[2].ret = "False"

---------------------------------------------------------------------------
(* Further claims about the branch manager, checked under SpecGit *)

\* the step is a call of this public method on a manager that has its clone
CallStep(name) ==
    /\ g_tree
    /\ g_calls' = g_calls + 1
    /\ g_call'.name = name

\* C22: publish_and_verify_remote pushes with --set-upstream exactly when the
\* active branch has no upstream and with a plain push otherwise; after a
\* publish that succeeded the active branch has an upstream; and a publish
\* that directly follows a successful one (no commit between) succeeds and
\* leaves origin, the local branches and their upstreams as they were.
C22_PublishIdempotent ==
    [][CallStep("publish_and_verify_remote")
       => /\ g_ops'[Len(g_ops')].op =
                (IF g_head \in g_upstream THEN "push" ELSE "push --set-upstream")
          /\ (g_ret'.kind = "returned") => (g_head' \in g_upstream')
          /\ (g_call.name = "publish_and_verify_remote" /\ g_ret.kind = "returned")
             => /\ g_ret'.kind = "returned"
                /\ g_remote' = g_remote
                /\ g_upstream' = g_upstream
                /\ g_local' = g_local
                /\ g_head' = g_head]_vars

\* the feature branch, with a commit on it, was published with --set-upstream
\* and then published again with a plain push; origin holds its tip
C22_Witness ==
    /\ g_call.name = "publish_and_verify_remote"
    /\ g_ret.kind = "returned"
    /\ g_ops[Len(g_ops)].op = "push"
    /\ g_head = g_feature
    /\ g_head # MainBranch
    /\ g_head \in g_upstream
    /\ g_local[g_head] = NewRevs[1]
    /\ RemoteBranch(g_head, NewRevs[1], BotName) \in g_remote

\* the branches create_feature_branch has created in the clone
CreatedBranches == (DOMAIN g_local) \ {MainBranch}

\* C23: create_merge_request on an initialized manager sends exactly one
\* POST, with base the given base and head the feature-branch name, which
\* names a branch create_feature_branch created whenever it created one;
\* whatever status the endpoint answers, 201 or not, the call returns
\* normally and leaves the manager and the clone as they were.
C23_MergeRequestNeverRaises ==
    [][(CallStep("create_merge_request") /\ g_pc = "done")
       => /\ Len(g_ops') = 1
          /\ g_ops'[1].op = "POST"
          /\ g_ops'[1].arg = g_call'.arg
          /\ g_ops'[1].branch = g_feature
          /\ (CreatedBranches # {}) => (g_ops'[1].branch \in CreatedBranches)
          /\ g_ret' = Result("returned", "None")
          /\ UNCHANGED <<g_pc, g_tree, g_remote, g_local, g_head, g_upstream,
                         g_user, g_feature, g_dirty, g_commits>>]_vars

\* the endpoint refused (422) the request for tech-debt-bot-T1-c0ffee0 onto
\* main, and the call returned
C23_Witness ==
    /\ g_pc = "done"
    /\ g_call = [name |-> "create_merge_request", arg |-> "main"]
    /\ g_ops = <<GitOp("POST", BranchName("T1", HeadRev), "main", "422")>>
    /\ g_feature \in CreatedBranches
    /\ g_ret = Result("returned", "None")

\* C24: create_feature_branch(identifier) names the branch
\* tech-debt-bot-<identifier>-<short id of HEAD>, a function of the
\* identifier and the revision alone; on a clone that has recorded no commit
\* the revision is the cloned one, so every run with the same identifier at
\* that revision gets the same name.
C24_NamingDeterministic ==
    [][CallStep("create_feature_branch")
       => /\ g_feature' = <<"tech-debt-bot", g_call'.arg, g_local[g_head]>>
          /\ (g_commits = 0)
             => g_feature' = <<"tech-debt-bot", g_call'.arg, "c0ffee0">>]_vars

\* create_feature_branch("T1") on the fresh clone created and checked out
\* tech-debt-bot-T1-c0ffee0
C24_Witness ==
    /\ g_call = [name |-> "create_feature_branch", arg |-> "T1"]
    /\ g_ret = Result("returned", "None")
    /\ g_commits = 0
    /\ g_feature = <<"tech-debt-bot", "T1", "c0ffee0">>
    /\ g_head = g_feature

\* the name has the cloned revision c0ffee0 as one of its parts
NamesClonedRevision(name) == \E i \in DOMAIN name : name[i] = "c0ffee0"

\* C25: when initialize returns, it returns True exactly when one of the
\* branches of the clone, local or remote, has the current short revision in
\* its name; the cleanup has deleted no such branch, so the answer is the one
\* the branches found at the clone would have given.
C25_PresenceResult ==
    (g_pc = "done" /\ g_call.name = "initialize")
    => /\ g_ret.kind = "returned"
       /\ (g_ret.val = "True")
          <=> (\E n \in (DOMAIN g_local) \cup {b.name : b \in g_remote} :
                  NamesClonedRevision(n))
       /\ \A b \in g_deleted : ~NamesClonedRevision(b.name)
       /\ (g_ret.val = "True")
          <=> (\E b \in g_remote \cup g_deleted : NamesClonedRevision(b.name))

\* initialize deleted a branch of an older revision, kept the branch of the
\* current one although the cleanup's author wrote it, and returned True
C25_Witness ==
    /\ g_pc = "done"
    /\ g_call.name = "initialize"
    /\ g_ret = Result("returned", "True")
    /\ g_deleted # {}
    /\ RemoteBranch(<<"tech-debt-bot", "T1", "c0ffee0">>, OldRev, CleanupAuthor)
          \in g_remote

\* the positions in the operations of the last call that hold this operation
OpsAt(o) == {i \in DOMAIN g_ops : g_ops[i].op = o}

\* C26: the operations of initialize come in the order clone, identity
\* configuration, current revision, branch listing, deletions, presence
\* check: a clone is attempted only for a well-formed URL and before
\* everything else, every deletion comes after the identity is configured
\* and the revision computed, the presence check comes last, and a
\* malformed URL fails the call with no operation performed.
C26_InitializeOrder ==
    (g_call.name = "initialize")
    => /\ \A i \in OpsAt("clone") : i = 1 /\ g_url_ok
       /\ \A i \in OpsAt("config user.name") : i = 2
       /\ \A i \in OpsAt("rev-parse HEAD") : i = 3
       /\ \A i \in OpsAt("branch -a --list") : i = 4
       /\ \A i \in OpsAt("push --delete") :
             /\ i > 4
             /\ g_user = "TechDebotBot"
             /\ g_latest = "c0ffee0"
       /\ \A i \in OpsAt("branch -a") :
             i = Len(g_ops) /\ i > 4 /\ g_pc = "done"
       /\ (g_pc \in {"cleanup", "done"})
          => /\ Len(g_ops) >= 4
             /\ g_ops[1].op = "clone"
             /\ g_ops[2].op = "config user.name"
             /\ g_ops[3].op = "rev-parse HEAD"
             /\ g_ops[4].op = "branch -a --list"
       /\ (g_pc = "done") => (OpsAt("branch -a") # {})
       /\ (~g_url_ok)
          => /\ g_ops = <<>>
             /\ g_pc = "failed"
             /\ g_ret.kind = "ValueError: Invalid repository URL"
             /\ ~g_tree

\* initialize has run to its end with a deletion as its fifth operation
C26_Witness ==
    /\ g_call.name = "initialize"
    /\ g_pc = "done"
    /\ Len(g_ops) = 6
    /\ g_ops[1].op = "clone"
    /\ g_ops[5].op = "push --delete"
    /\ g_ops[6].op = "branch -a"

\* C27: create_feature_branch for a name that is already a local branch
\* raises the error of git checkout -b; it neither checks that branch out nor
\* moves it, and every local branch keeps its commits.
C27_NoSilentReuse ==
    [][(/\ CallStep("create_feature_branch")
        /\ <<"tech-debt-bot", g_call'.arg, g_local[g_head]>> \in DOMAIN g_local)
       => /\ g_ret' = Result("GitCommandError", "checkout -b")
          /\ g_local' = g_local
          /\ g_head' # <<"tech-debt-bot", g_call'.arg, g_local[g_head]>>
          /\ g_remote' = g_remote]_vars

\* tech-debt-bot-T1-c0ffee0 exists with a commit of its own; a second
\* create_feature_branch("T1") at revision c0ffee0 failed and left it alone
C27_Witness ==
    /\ g_call = [name |-> "create_feature_branch", arg |-> "T1"]
    /\ g_ret = Result("GitCommandError", "checkout -b")
    /\ g_feature = <<"tech-debt-bot", "T1", "c0ffee0">>
    /\ g_feature \in DOMAIN g_local
    /\ g_local[g_feature] = NewRevs[1]
    /\ g_head = MainBranch

\* C28: whenever create_feature_branch creates a branch, the revision at
\* the end of its name is the short id of the default-branch commit the
\* branch is cut from, the revision initialize computed; also when a commit
\* was recorded on an earlier feature branch before the call.
C28_SuffixIsCutCommit ==
    [][(CallStep("create_feature_branch") /\ g_pc = "done"
        /\ g_ret'.kind = "returned")
       => /\ g_feature'[Len(g_feature')] = g_local[MainBranch]
          /\ g_feature'[Len(g_feature')] = g_local'[g_feature']
          /\ g_feature'[Len(g_feature')] = g_latest]_vars

\* C29: on an initialized manager the default branch never receives a
\* commit and is never pushed with one: it stays at the cloned revision,
\* locally and on origin, whatever public calls are made.
C29_DefaultBranchUntouched ==
    (g_pc = "done")
    => /\ g_local[MainBranch] = HeadRev
       /\ RemoteOf(MainBranch).tip = HeadRev

\* the responses the provider gave that were too long, in order: the
\* assistant messages of the list
OverlongResponses ==
    [k \in 1..((Len(l_messages) - 2) \div 2) |-> l_messages[2 * k + 1].content]

\* C31: a call of get_completion_with_length_check, for every max_retries
\* >= 0, ends by returning (prompt, r) after at most max_retries requests to
\* the provider, r being the first response of at most max_length characters
\* or, when there is none, the last response received; each response that
\* was too long added itself and one correction request to the message list.
C31_LengthCheckReturns ==
    (l_call.name = "get_completion_with_length_check" /\ l_pc = "idle")
    => /\ ProviderCalls <= l_call.max_retries
       /\ l_ret.kind = "returned"
       /\ l_ret.val[1] = l_call.prompt
       /\ Len(l_messages) = 2 + 2 * l_i
       /\ \A k \in DOMAIN OverlongResponses :
             /\ ~IsValidLength(OverlongResponses[k], l_call.max_length)
             /\ l_messages[2 * k + 1] = AssistantMessage(OverlongResponses[k])
             /\ l_messages[2 * k + 2] =
                   CorrectionMessage(Len(OverlongResponses[k]), l_call.max_length)
       /\ \/ /\ IsValidLength(l_ret.val[2], l_call.max_length)
             /\ ProviderCalls = l_i + 1
          \/ /\ ProviderCalls = l_call.max_retries
             /\ l_i = l_call.max_retries
             /\ l_ret.val[2] = OverlongResponses[l_i]

---------------------------------------------------------------------------
(* A further claim about CodeFileManager, checked under SpecEdit *)

\* C30: update_code_segment on a path that does not exist returns normally,
\* with the value a successful update returns, creates no file and leaves
\* the file system as it was.
C30_MissingFileUpdateIsSilent ==
    [][(/\ ~fs_exists
        /\ ed_pc = "idle"
        /\ ed_pc' = "returned"
        /\ ed_op'.name = "update")
       => /\ ed_ret' = Result("returned", <<>>)
          /\ ~fs_exists'
          /\ file' = file]_vars

\* an update with a valid range and a text has returned for a missing file
C30_Witness ==
    /\ ~fs_exists
    /\ ed_pc = "returned"
    /\ ed_op.name = "update"
    /\ ed_op.range = TupleRange(1, 2)
    /\ ed_op.text = <<" ", "x", "\n">>
    /\ ed_ret = Result("returned", <<>>)
    /\ file = <<>>

=============================================================================
